---- MODULE Spec2Model ----
(***************************************************************************)
(* django-secure-media: media access policies, the policy registry, the    *)
(* secure_media_path decorator and the free register function.             *)
(*                                                                         *)
(* Text is a sequence of Unicode code points, raw bytes a sequence of byte *)
(* values; both carry their Python type in the field kind.                 *)
(***************************************************************************)
EXTENDS Integers, Sequences, FiniteSets, TLC

VARIABLES
    heap,      \* the MediaAccessPolicyRegistry instances built so far
    wrapped,   \* DefaultMediaAccessPolicyRegistry._wrapped: 0 is `empty`, else a heap index
    last,      \* the last completed call: its arguments, result and callback invocations
    threads    \* the position and locals of each concurrent caller

vars == <<heap, wrapped, last, threads>>

(***************************************************************************)
(* Bounds                                                                  *)
(***************************************************************************)
\* policies held by all registries together
MaxPolicies == 2
\* prefixes of a policy under test in SpecMatch
MaxPrefixes == 2
\* policies held by the registry that concurrent callers share in SpecConc
MaxConcPolicies == 3

(***************************************************************************)
(* Values                                                                  *)
(***************************************************************************)
Str(cps) == [kind |-> "str", val |-> cps]
Bytes(bs) == [kind |-> "bytes", val |-> bs]

\* "i/a", b"i/a", "ix", the UTF-8 bytes of "é/a", "g/a"
Paths ==
    { Str(<<105, 47, 97>>), Bytes(<<105, 47, 97>>), Str(<<105, 120>>),
      Bytes(<<195, 169, 47, 97>>), Str(<<103, 47, 97>>) }

\* request.user: absent, anonymous, a logged-in member, a logged-in staff member
Requests == {"no_user", "anonymous", "member", "staff"}

\* *args of the wrapped view: none, or document_root
Extras == { <<>>, <<"document_root">> }

PolicyIds == {"auth_policy", "staff_policy", "accent_policy"}

Ok(v) == [exc |-> "none", val |-> v]
Raise(e, v) == [exc |-> e, val |-> v]

(***************************************************************************)
(* MediaAccessPolicy                                                       *)
(***************************************************************************)
\* str.encode() of one code point: UTF-8, strict
utf8(cp) ==
    IF cp < 128 THEN <<cp>>
    ELSE IF cp < 2048 THEN <<192 + (cp \div 64), 128 + (cp % 64)>>
    ELSE <<224 + (cp \div 4096), 128 + ((cp \div 64) % 64), 128 + (cp % 64)>>

IsSurrogate(cp) == cp >= 55296 /\ cp <= 57343

RECURSIVE encode_from(_, _)
encode_from(cps, i) ==
    IF i > Len(cps) THEN Ok(<<>>)
    ELSE IF IsSurrogate(cps[i]) THEN Raise("UnicodeEncodeError", <<>>)
    ELSE LET rest == encode_from(cps, i + 1)
         IN  IF rest.exc # "none" THEN rest ELSE Ok(utf8(cps[i]) \o rest.val)

\* p.encode(): bytes has no encode attribute
encode(p) ==
    IF p.kind = "bytes" THEN Raise("AttributeError", <<>>)
    ELSE LET r == encode_from(p.val, 1)
         IN  IF r.exc # "none" THEN r ELSE Ok(Bytes(r.val))

\* tuple(p.encode() for p in self.restricted_prefixes)
RECURSIVE encode_all(_, _)
encode_all(prefixes, i) ==
    IF i > Len(prefixes) THEN Ok(<<>>)
    ELSE LET e == encode(prefixes[i])
         IN  IF e.exc # "none" THEN e
             ELSE LET rest == encode_all(prefixes, i + 1)
                  IN  IF rest.exc # "none" THEN rest ELSE Ok(<<e.val>> \o rest.val)

\* the tail match of startswith for one prefix of the path's own type
tailmatch(s, prefix) ==
    /\ Len(prefix) <= Len(s)
    /\ \A k \in 1..Len(prefix) : s[k] = prefix[k]

\* tmp_path.startswith(prefixes) for a tuple: the elements are tried in order
RECURSIVE startswith(_, _, _)
startswith(path, prefixes, i) ==
    IF i > Len(prefixes) THEN Ok(FALSE)
    ELSE IF prefixes[i].kind # path.kind THEN Raise("TypeError", FALSE)
    ELSE IF tailmatch(path.val, prefixes[i].val) THEN Ok(TRUE)
    ELSE startswith(path, prefixes, i + 1)

\* matches without the conversion of the prefixes to the path's type
matches_unconverted(restricted_prefixes, path) ==
    startswith(path, restricted_prefixes, 1)

\* matches per path segment instead of per character
matches_segment(restricted_prefixes, path) ==
    IF path.kind = "bytes"
    THEN LET enc == encode_all(restricted_prefixes, 1)
         IN  IF enc.exc # "none" THEN Raise(enc.exc, FALSE)
             ELSE Ok(\E i \in 1..Len(enc.val) :
                        /\ tailmatch(path.val, enc.val[i].val)
                        /\ \/ Len(enc.val[i].val) = Len(path.val)
                           \/ enc.val[i].val = <<>>
                           \/ enc.val[i].val[Len(enc.val[i].val)] = 47
                           \/ path.val[Len(enc.val[i].val) + 1] = 47)
    ELSE Ok(\E i \in 1..Len(restricted_prefixes) :
                /\ restricted_prefixes[i].kind = "str"
                /\ tailmatch(path.val, restricted_prefixes[i].val)
                /\ \/ Len(restricted_prefixes[i].val) = Len(path.val)
                   \/ restricted_prefixes[i].val = <<>>
                   \/ restricted_prefixes[i].val[Len(restricted_prefixes[i].val)] = 47
                   \/ path.val[Len(restricted_prefixes[i].val) + 1] = 47)

\* MediaAccessPolicy.matches
matches(restricted_prefixes, path) ==
    IF path.kind = "bytes"
    THEN LET enc == encode_all(restricted_prefixes, 1)
         IN  IF enc.exc # "none" THEN Raise(enc.exc, FALSE)
             ELSE startswith(path, enc.val, 1)
    ELSE startswith(path, restricted_prefixes, 1)

\* the policies the callers build: ("i/", "p/"), ("i",), ("é/", "i/")
restricted_prefixes(policy) ==
    CASE policy = "auth_policy" -> << Str(<<105, 47>>), Str(<<112, 47>>) >>
      [] policy = "staff_policy" -> << Str(<<105>>) >>
      [] policy = "accent_policy" -> << Str(<<233, 47>>), Str(<<105, 47>>) >>

\* lambda request, path: request.user.is_authenticated, and the same for is_staff
access_check(policy, request, path) ==
    IF request = "no_user" THEN Raise("AttributeError", FALSE)
    ELSE IF policy = "staff_policy" THEN Ok(request = "staff")
    ELSE Ok(request \in {"member", "staff"})

\* MediaAccessPolicy.is_allowed
policy_is_allowed(policy, request, path) == access_check(policy, request, path)

(***************************************************************************)
(* MediaAccessPolicyRegistry                                               *)
(***************************************************************************)
\* MediaAccessPolicyRegistry(policies, default_allow): self.policies = list(policies)
new_registry(policies, default_allow) ==
    [policies |-> policies, default_allow |-> default_allow]

\* register that moves a policy already present to the end instead of adding it again
register_dedup(policies, policy) ==
    Append(SelectSeq(policies, LAMBDA q : q # policy), policy)

\* MediaAccessPolicyRegistry.register: self.policies.append(policy)
register(policies, policy) == Append(policies, policy)

\* the loop of get_policy_for_path from index i on
RECURSIVE scan(_, _, _)
scan(policies, path, i) ==
    IF i > Len(policies) THEN Ok("None")
    ELSE LET m == matches(restricted_prefixes(policies[i]), path)
         IN  IF m.exc # "none" THEN Raise(m.exc, "None")
             ELSE IF m.val THEN Ok(policies[i])
             ELSE scan(policies, path, i + 1)

\* a scan that keeps the last match instead of returning at the first
RECURSIVE scan_last(_, _, _, _)
scan_last(policies, path, i, found) ==
    IF i > Len(policies) THEN Ok(found)
    ELSE LET m == matches(restricted_prefixes(policies[i]), path)
         IN  IF m.exc # "none" THEN Raise(m.exc, "None")
             ELSE scan_last(policies, path, i + 1, IF m.val THEN policies[i] ELSE found)

get_policy_for_path_last(policies, path) == scan_last(policies, path, 1, "None")

\* MediaAccessPolicyRegistry.get_policy_for_path
get_policy_for_path(policies, path) == scan(policies, path, 1)

\* one invocation of a policy's predicate
PredCall(policy, request, path) ==
    [fn |-> "access_check", policy |-> policy, request |-> request, path |-> path,
     extra |-> <<>>]

\* is_allowed that lets a matching policy only narrow the default
registry_is_allowed_and_default(reg, request, path) ==
    LET found == get_policy_for_path(reg.policies, path)
    IN  IF found.exc # "none" THEN [exc |-> found.exc, val |-> FALSE, calls |-> <<>>]
        ELSE IF found.val # "None"
        THEN LET r == policy_is_allowed(found.val, request, path)
             IN  [exc |-> r.exc, val |-> r.val /\ reg.default_allow,
                  calls |-> <<PredCall(found.val, request, path)>>]
        ELSE [exc |-> "none", val |-> reg.default_allow, calls |-> <<>>]

\* an is_allowed that asks the predicate of every matching policy and answers with
\* the first one's
registry_is_allowed_all_matching(reg, request, path) ==
    LET found == get_policy_for_path(reg.policies, path)
        sel == SelectSeq(reg.policies,
                         LAMBDA p : matches(restricted_prefixes(p), path) = Ok(TRUE))
    IN  IF found.exc # "none" THEN [exc |-> found.exc, val |-> FALSE, calls |-> <<>>]
        ELSE IF found.val # "None"
        THEN LET r == policy_is_allowed(found.val, request, path)
             IN  [exc |-> r.exc, val |-> r.val,
                  calls |-> [i \in 1..Len(sel) |-> PredCall(sel[i], request, path)]]
        ELSE [exc |-> "none", val |-> reg.default_allow, calls |-> <<>>]

\* an is_allowed that answers False when the predicate fails
registry_is_allowed_swallow(reg, request, path) ==
    LET found == get_policy_for_path(reg.policies, path)
    IN  IF found.exc # "none" THEN [exc |-> found.exc, val |-> FALSE, calls |-> <<>>]
        ELSE IF found.val # "None"
        THEN LET r == policy_is_allowed(found.val, request, path)
             IN  [exc |-> "none", val |-> r.exc = "none" /\ r.val,
                  calls |-> <<PredCall(found.val, request, path)>>]
        ELSE [exc |-> "none", val |-> reg.default_allow, calls |-> <<>>]

\* MediaAccessPolicyRegistry.is_allowed
registry_is_allowed(reg, request, path) ==
    LET found == get_policy_for_path(reg.policies, path)
    IN  IF found.exc # "none" THEN [exc |-> found.exc, val |-> FALSE, calls |-> <<>>]
        ELSE IF found.val # "None"
        THEN LET r == policy_is_allowed(found.val, request, path)
             IN  [exc |-> r.exc, val |-> r.val,
                  calls |-> <<PredCall(found.val, request, path)>>]
        ELSE [exc |-> "none", val |-> reg.default_allow, calls |-> <<>>]

(***************************************************************************)
(* DefaultMediaAccessPolicyRegistry, the lazy process-wide default         *)
(***************************************************************************)
\* _setup: self._wrapped = MediaAccessPolicyRegistryClass()
setup_heap(h, w) == IF w = 0 THEN Append(h, new_registry(<<>>, TRUE)) ELSE h
setup_wrapped(h, w) == IF w = 0 THEN Len(h) + 1 ELSE w

(***************************************************************************)
(* secure_media_path                                                       *)
(***************************************************************************)
\* the wrapped view, django.views.static.serve in the example project
view_func(request, path, extra, present) ==
    IF present THEN [kind |-> "return", exc |-> "none", msg |-> "FileResponse"]
    ELSE [kind |-> "raise", exc |-> "Http404", msg |-> "does not exist"]

ViewCall(request, path, extra) ==
    [fn |-> "view_func", policy |-> "None", request |-> request, path |-> path,
     extra |-> extra]

\* check_path that answers a denial with PermissionDenied
check_path_forbidden(reg, request, path, extra, present) ==
    LET a == registry_is_allowed(reg, request, path)
    IN  IF a.exc # "none"
        THEN [outcome |-> [kind |-> "raise", exc |-> a.exc, msg |-> "predicate"],
              calls |-> a.calls]
        ELSE IF ~a.val
        THEN [outcome |-> [kind |-> "raise", exc |-> "PermissionDenied",
                           msg |-> "Restricted media file"],
              calls |-> a.calls]
        ELSE [outcome |-> view_func(request, path, extra, present),
              calls |-> Append(a.calls, ViewCall(request, path, extra))]

\* check_path that serves first and authorizes the response afterwards
check_path_serve_first(reg, request, path, extra, present) ==
    LET v == view_func(request, path, extra, present)
        a == registry_is_allowed(reg, request, path)
    IN  IF v.kind = "raise"
        THEN [outcome |-> v, calls |-> <<ViewCall(request, path, extra)>>]
        ELSE IF a.exc # "none"
        THEN [outcome |-> [kind |-> "raise", exc |-> a.exc, msg |-> "predicate"],
              calls |-> <<ViewCall(request, path, extra)>> \o a.calls]
        ELSE IF ~a.val
        THEN [outcome |-> [kind |-> "raise", exc |-> "Http404",
                           msg |-> "Restricted media file"],
              calls |-> <<ViewCall(request, path, extra)>> \o a.calls]
        ELSE [outcome |-> v, calls |-> <<ViewCall(request, path, extra)>> \o a.calls]

\* check_path that does not pass *args on to the view
check_path_drop_args(reg, request, path, extra, present) ==
    LET a == registry_is_allowed(reg, request, path)
    IN  IF a.exc # "none"
        THEN [outcome |-> [kind |-> "raise", exc |-> a.exc, msg |-> "predicate"],
              calls |-> a.calls]
        ELSE IF ~a.val
        THEN [outcome |-> [kind |-> "raise", exc |-> "Http404",
                           msg |-> "Restricted media file"],
              calls |-> a.calls]
        ELSE [outcome |-> view_func(request, path, <<>>, present),
              calls |-> Append(a.calls, ViewCall(request, path, <<>>))]

\* check_path, given the registry that `policy_registry or default_registry` yields
check_path(reg, request, path, extra, present) ==
    LET a == registry_is_allowed(reg, request, path)
    IN  IF a.exc # "none"
        THEN [outcome |-> [kind |-> "raise", exc |-> a.exc, msg |-> "predicate"],
              calls |-> a.calls]
        ELSE IF ~a.val
        THEN [outcome |-> [kind |-> "raise", exc |-> "Http404",
                           msg |-> "Restricted media file"],
              calls |-> a.calls]
        ELSE [outcome |-> view_func(request, path, extra, present),
              calls |-> Append(a.calls, ViewCall(request, path, extra))]

(***************************************************************************)
(* django_secure_media.register, the free function                         *)
(***************************************************************************)
\* what callers hand over as policy_registry: nothing, the custom registry (heap
\* index 1), an empty list, an object that is no registry
RegistryArgs == {"None", "custom", "empty_list", "not_a_registry"}
\* what callers hand over as media_policy
PolicyArgs == PolicyIds \cup {"not_a_policy"}

\* bool(policy_registry): None and [] are falsy
truthy(policy_registry) == policy_registry \in {"custom", "not_a_registry"}

\* the free register that always uses the default registry
secure_media_register_default_only(h, w, media_policy, policy_registry) ==
    IF policy_registry = "not_a_registry"
    THEN [heap |-> h, wrapped |-> w, exc |-> "ValueError", target |-> 0]
    ELSE LET h1 == setup_heap(h, w)
             w1 == setup_wrapped(h, w)
         IN  IF media_policy \notin PolicyIds
             THEN [heap |-> h1, wrapped |-> w1, exc |-> "ValueError", target |-> 0]
             ELSE [heap |-> [h1 EXCEPT ![w1].policies = register(@, media_policy)],
                   wrapped |-> w1, exc |-> "none", target |-> w1]

\* register(media_policy, policy_registry): the state it leaves and how it ends
secure_media_register(h, w, media_policy, policy_registry) ==
    LET use_default == ~truthy(policy_registry)
        \* isinstance(registry, ...) reads __class__ through the lazy proxy
        h1 == IF use_default THEN setup_heap(h, w) ELSE h
        w1 == IF use_default THEN setup_wrapped(h, w) ELSE w
        ref == IF use_default THEN w1 ELSE 1
    IN  IF ~use_default /\ policy_registry # "custom"
        THEN [heap |-> h, wrapped |-> w, exc |-> "ValueError", target |-> 0]
        ELSE IF media_policy \notin PolicyIds
        THEN [heap |-> h1, wrapped |-> w1, exc |-> "ValueError", target |-> 0]
        ELSE [heap |-> [h1 EXCEPT ![ref].policies = register(@, media_policy)],
              wrapped |-> w1, exc |-> "none", target |-> ref]

(***************************************************************************)
(* The sequential program: one custom registry, the default registry, and  *)
(* views wrapped with and without policy_registry                          *)
(***************************************************************************)
RECURSIVE total_policies(_, _)
total_policies(h, i) ==
    IF i > Len(h) THEN 0 ELSE Len(h[i].policies) + total_policies(h, i + 1)

\* the registry objects callers hold: the custom instance and the lazy default
Targets == {"custom", "default"}

InitialPolicies == { <<>> } \cup { <<p>> : p \in PolicyIds }

NoThreads == <<>>

Init ==
    /\ \E ps \in InitialPolicies, da \in BOOLEAN : heap = << new_registry(ps, da) >>
    /\ wrapped = 0
    /\ last = [op |-> "none"]
    /\ threads = NoThreads

\* registry.register(policy) on the custom registry or through the default proxy
Register(target, policy) ==
    LET h1 == IF target = "default" THEN setup_heap(heap, wrapped) ELSE heap
        w1 == IF target = "default" THEN setup_wrapped(heap, wrapped) ELSE wrapped
        ref == IF target = "default" THEN w1 ELSE 1
    IN  /\ total_policies(heap, 1) < MaxPolicies
        /\ heap' = [h1 EXCEPT ![ref].policies = register(@, policy)]
        /\ wrapped' = w1
        /\ last' = [op |-> "register", ref |-> ref, policy |-> policy,
                    before |-> h1[ref].policies]
        /\ UNCHANGED threads

\* django_secure_media.register(media_policy, policy_registry)
FreeRegister(media_policy, policy_registry) ==
    LET r == secure_media_register(heap, wrapped, media_policy, policy_registry)
    IN  /\ total_policies(heap, 1) < MaxPolicies
        /\ heap' = r.heap
        /\ wrapped' = r.wrapped
        /\ last' = [op |-> "free_register", media_policy |-> media_policy,
                    policy_registry |-> policy_registry, exc |-> r.exc,
                    target |-> r.target, heap_before |-> heap, wrapped_before |-> wrapped]
        /\ UNCHANGED threads

\* registry.get_policy_for_path(path)
GetPolicyForPath(target, path) ==
    LET h1 == IF target = "default" THEN setup_heap(heap, wrapped) ELSE heap
        w1 == IF target = "default" THEN setup_wrapped(heap, wrapped) ELSE wrapped
        ref == IF target = "default" THEN w1 ELSE 1
    IN  /\ heap' = h1
        /\ wrapped' = w1
        /\ last' = [op |-> "get_policy_for_path", ref |-> ref, path |-> path,
                    result |-> get_policy_for_path(h1[ref].policies, path)]
        /\ UNCHANGED threads

\* registry.is_allowed(request, path)
IsAllowed(target, request, path) ==
    LET h1 == IF target = "default" THEN setup_heap(heap, wrapped) ELSE heap
        w1 == IF target = "default" THEN setup_wrapped(heap, wrapped) ELSE wrapped
        ref == IF target = "default" THEN w1 ELSE 1
    IN  /\ heap' = h1
        /\ wrapped' = w1
        /\ last' = [op |-> "is_allowed", ref |-> ref, request |-> request, path |-> path,
                    result |-> registry_is_allowed(h1[ref], request, path)]
        /\ UNCHANGED threads

\* a wrapped view that consults the default registry whatever policy_registry it was
\* created with
CheckPathDefaultOnly(target, request, path, extra, present) ==
    LET h1 == setup_heap(heap, wrapped)
        w1 == setup_wrapped(heap, wrapped)
    IN  /\ heap' = h1
        /\ wrapped' = w1
        /\ last' = [op |-> "check_path", gate |-> target, ref |-> w1,
                    request |-> request, path |-> path,
                    extra |-> extra, present |-> present,
                    result |-> check_path(h1[w1], request, path, extra, present)]
        /\ UNCHANGED threads

\* a call of a view wrapped by secure_media_path(view, policy_registry=custom) or by
\* secure_media_path(view): registry = policy_registry or default_registry
CheckPath(target, request, path, extra, present) ==
    LET h1 == IF target = "default" THEN setup_heap(heap, wrapped) ELSE heap
        w1 == IF target = "default" THEN setup_wrapped(heap, wrapped) ELSE wrapped
        ref == IF target = "default" THEN w1 ELSE 1
    IN  /\ heap' = h1
        /\ wrapped' = w1
        /\ last' = [op |-> "check_path", gate |-> target, ref |-> ref,
                    request |-> request, path |-> path,
                    extra |-> extra, present |-> present,
                    result |-> check_path(h1[ref], request, path, extra, present)]
        /\ UNCHANGED threads

Next ==
    \/ \E t \in Targets, p \in PolicyIds : Register(t, p)
    \/ \E mp \in PolicyArgs, ra \in RegistryArgs : FreeRegister(mp, ra)
    \/ \E t \in Targets, path \in Paths : GetPolicyForPath(t, path)
    \/ \E t \in Targets, rq \in Requests, path \in Paths : IsAllowed(t, rq, path)

Spec == Init /\ [][Next]_vars

\* the registries as the wrapped views see them
NextGate ==
    \/ \E t \in Targets, p \in PolicyIds : Register(t, p)
    \/ \E t \in Targets, rq \in Requests, path \in Paths, ex \in Extras, pr \in BOOLEAN :
           CheckPath(t, rq, path, ex, pr)

SpecGate == Init /\ [][NextGate]_vars

(***************************************************************************)
(* Properties of the registry                                              *)
(***************************************************************************)
\* the indices of the policies of ps whose matches(path) returns True
MatchingIndices(ps, path) ==
    { i \in 1..Len(ps) :
        LET m == matches(restricted_prefixes(ps[i]), path)
        IN  m.exc = "none" /\ m.val }

\* the policy at the lowest matching index, "None" when there is none
FirstMatch(ps, path) ==
    LET M == MatchingIndices(ps, path)
    IN  IF M = {} THEN "None"
        ELSE ps[CHOOSE i \in M : \A j \in M : i <= j]

\* C1: in every reachable registry and for every path, get_policy_for_path returns
\* the policy with the lowest registration index whose matches(path) is true, and
\* None exactly when no registered policy matches; so does every completed call.
C1_FirstMatchWins ==
    /\ \A ref \in 1..Len(heap), path \in Paths :
          LET r == get_policy_for_path(heap[ref].policies, path)
          IN  /\ r.exc = "none"
              /\ r.val = FirstMatch(heap[ref].policies, path)
              /\ (r.val = "None") = (MatchingIndices(heap[ref].policies, path) = {})
    /\ last.op = "get_policy_for_path" =>
          /\ last.result.exc = "none"
          /\ last.result.val = FirstMatch(heap[last.ref].policies, last.path)

\* a completed lookup of a path that two different registered policies match,
\* answered with the earlier one
C1_Witness ==
    /\ last.op = "get_policy_for_path"
    /\ \E i, j \in MatchingIndices(heap[last.ref].policies, last.path) :
          /\ i < j
          /\ heap[last.ref].policies[i] # heap[last.ref].policies[j]
          /\ last.result.val = heap[last.ref].policies[i]

\* C2: is_allowed equals the predicate result of the first-registered matching
\* policy when a policy matches (default_allow and later policies play no part),
\* and default_allow when none matches.
C2_IsAllowedDecision ==
    last.op = "is_allowed" =>
        LET reg == heap[last.ref]
            first == FirstMatch(reg.policies, last.path)
        IN  IF first # "None"
            THEN /\ last.result.exc = access_check(first, last.request, last.path).exc
                 /\ last.result.val = access_check(first, last.request, last.path).val
            ELSE /\ last.result.exc = "none"
                 /\ last.result.val = reg.default_allow

\* is_allowed allowed under default_allow = False although a later matching policy
\* would deny
C2_Witness ==
    /\ last.op = "is_allowed"
    /\ ~heap[last.ref].default_allow
    /\ last.result.exc = "none"
    /\ last.result.val
    /\ \E j \in MatchingIndices(heap[last.ref].policies, last.path) :
          ~access_check(heap[last.ref].policies[j], last.request, last.path).val

\* C5: register is append-only: the policy sequence after R.register(P) is the
\* previous one with P at the end, every path that resolved to a policy resolves
\* to the same policy afterwards, and a path resolves to the new P only if no
\* earlier-registered policy matches it.
C5_RegisterAppendOnly ==
    [][ /\ Len(heap') >= Len(heap)
        /\ \A ref \in 1..Len(heap) :
              heap'[ref] = heap[ref] \/
              LET old == heap[ref].policies
                  new == heap'[ref].policies
              IN  /\ new = old \/ \E p \in PolicyIds : new = old \o <<p>>
                  /\ \A path \in Paths :
                        LET o == get_policy_for_path(old, path)
                            n == get_policy_for_path(new, path)
                        IN  /\ o.val # "None" => n = o
                            /\ n # o => /\ n.val = new[Len(new)]
                                        /\ MatchingIndices(old, path) = {}
        /\ last'.op = "register" =>
              heap'[last'.ref].policies = last'.before \o << last'.policy >>
      ]_vars

\* a registration of a second policy that matches a path an earlier policy governs:
\* the path still resolves to the earlier policy
C5_Witness ==
    /\ last.op = "register"
    /\ last.before # <<>>
    /\ heap[last.ref].policies = last.before \o << last.policy >>
    /\ \E path \in Paths :
          /\ matches(restricted_prefixes(last.policy), path).val
          /\ get_policy_for_path(last.before, path).val \notin {"None", last.policy}
          /\ get_policy_for_path(heap[last.ref].policies, path)
                = get_policy_for_path(last.before, path)

\* the policy sequences of all registries, the default registry's empty until set up
AllPolicies(h, w) ==
    [custom |-> h[1].policies, default |-> IF w = 0 THEN <<>> ELSE h[w].policies]

\* C8: the free register fails with the configuration error whenever the policy is
\* no access policy or the supplied registry is no policy registry, falsy values
\* such as an empty list included, and then appends to no registry.
C8_RegisterRejectsWrongKinds ==
    ( /\ last.op = "free_register"
      /\ \/ last.media_policy \notin PolicyIds
         \/ last.policy_registry \in {"empty_list", "not_a_registry"} )
    => /\ last.exc = "ValueError"
       /\ AllPolicies(heap, wrapped) = AllPolicies(last.heap_before, last.wrapped_before)

(***************************************************************************)
(* Properties of the wrapped view                                          *)
(***************************************************************************)
\* the view_func invocations among the callback invocations of a call
ViewCalls(calls) == SelectSeq(calls, LAMBDA c : c.fn = "view_func")

\* the decision of the effective registry for the arguments of the last wrapped call
LastDecision == registry_is_allowed(heap[last.ref], last.request, last.path)

\* C3: whenever the effective registry's is_allowed is false, the wrapped call
\* fails with Http404, never with a forbidden signal, and the view is invoked zero
\* times.
C3_DenialIsNotFound ==
    ( /\ last.op = "check_path"
      /\ LastDecision.exc = "none"
      /\ ~LastDecision.val )
    => /\ last.result.outcome.kind = "raise"
       /\ last.result.outcome.exc = "Http404"
       /\ last.result.outcome.exc # "PermissionDenied"
       /\ ViewCalls(last.result.calls) = <<>>

\* an anonymous request for a path under a registered prefix, for a file that is
\* there: refused with Http404 without a call of the view
C3_Witness ==
    /\ last.op = "check_path"
    /\ last.request = "anonymous"
    /\ last.present
    /\ FirstMatch(heap[last.ref].policies, last.path) # "None"
    /\ last.result.outcome.exc = "Http404"
    /\ last.result.calls = << PredCall(FirstMatch(heap[last.ref].policies, last.path),
                                       last.request, last.path) >>

\* C4: whenever the effective registry's is_allowed is true, the wrapped call
\* invokes the view exactly once with the same request, path and extra arguments
\* and ends as the view ends; with default_allow = True and no policies every
\* wrapped call invokes the view.
C4_AllowedPassesThrough ==
    /\ ( /\ last.op = "check_path"
         /\ LastDecision.exc = "none"
         /\ LastDecision.val )
       => /\ ViewCalls(last.result.calls)
                = << ViewCall(last.request, last.path, last.extra) >>
          /\ last.result.outcome
                = view_func(last.request, last.path, last.extra, last.present)
    /\ ( /\ last.op = "check_path"
         /\ heap[last.ref].policies = <<>>
         /\ heap[last.ref].default_allow )
       => Len(ViewCalls(last.result.calls)) = 1

\* a call through the default registry, which holds no policy, with document_root
\* as extra argument: the view's response is returned
C4_Witness ==
    /\ last.op = "check_path"
    /\ last.ref = wrapped
    /\ heap[last.ref].policies = <<>>
    /\ heap[last.ref].default_allow
    /\ last.extra # <<>>
    /\ last.result.outcome.kind = "return"
    /\ last.result.calls = << ViewCall(last.request, last.path, last.extra) >>

\* C10: to a caller the governing predicate rejects, the outcome of the wrapped
\* call for a restricted file that exists equals, in class and content, the
\* outcome of the same call in the run where the file does not exist.
C10_DenialHidesExistence ==
    ( /\ last.op = "check_path"
      /\ FirstMatch(heap[last.ref].policies, last.path) # "None"
      /\ LastDecision.exc = "none"
      /\ ~LastDecision.val )
    => last.result.outcome
          = check_path(heap[last.ref], last.request, last.path, last.extra,
                       ~last.present).outcome

\* a rejected caller asked for a restricted file that exists, while the view by
\* itself tells an existing file from a missing one
C10_Witness ==
    /\ last.op = "check_path"
    /\ last.present
    /\ FirstMatch(heap[last.ref].policies, last.path) # "None"
    /\ LastDecision.exc = "none"
    /\ ~LastDecision.val
    /\ last.result.outcome.msg = "Restricted media file"
    /\ view_func(last.request, last.path, last.extra, TRUE)
          # view_func(last.request, last.path, last.extra, FALSE)

(***************************************************************************)
(* MediaAccessPolicy.matches over text and raw-byte prefixes and paths     *)
(***************************************************************************)
\* "i/", "i", "", "é/", b"i/", the Latin-1 bytes of "é/", a lone surrogate
PrefixAtoms ==
    { Str(<<105, 47>>), Str(<<105>>), Str(<<>>), Str(<<233, 47>>),
      Bytes(<<105, 47>>), Bytes(<<233, 47>>), Str(<<56448>>) }

\* restricted_prefixes of the policy under test
PrefixTuples ==
    UNION { [1..n -> PrefixAtoms] : n \in 0..MaxPrefixes }

\* "i/a", b"i/a", "ix", "é/a", its UTF-8 bytes, its Latin-1 bytes, "g/a", ""
MatchPaths ==
    { Str(<<105, 47, 97>>), Bytes(<<105, 47, 97>>), Str(<<105, 120>>),
      Str(<<233, 47, 97>>), Bytes(<<195, 169, 47, 97>>), Bytes(<<233, 47, 97>>),
      Str(<<103, 47, 97>>), Str(<<>>) }

\* MediaAccessPolicy(restricted_prefixes, access_check)
InitMatch ==
    /\ heap = << new_registry(<<>>, TRUE) >>
    /\ wrapped = 0
    /\ threads = NoThreads
    /\ \E prefixes \in PrefixTuples :
          last = [op |-> "MediaAccessPolicy", prefixes |-> prefixes]

\* policy.matches(path) on the policy under test
Matches(path) ==
    /\ last.op \in {"MediaAccessPolicy", "matches"}
    /\ last' = [op |-> "matches", prefixes |-> last.prefixes, path |-> path,
                result |-> matches(last.prefixes, path)]
    /\ UNCHANGED <<heap, wrapped, threads>>

NextMatch == \E path \in MatchPaths : Matches(path)

SpecMatch == InitMatch /\ [][NextMatch]_vars

\* the UTF-8 bytes of the text values above, written out; bytes stand for themselves
ByteForm(x) ==
    IF x.kind = "bytes" THEN x.val
    ELSE CASE x.val = <<105, 47>> -> <<105, 47>>
           [] x.val = <<105>> -> <<105>>
           [] x.val = <<>> -> <<>>
           [] x.val = <<233, 47>> -> <<195, 169, 47>>
           [] x.val = <<105, 47, 97>> -> <<105, 47, 97>>
           [] x.val = <<105, 120>> -> <<105, 120>>
           [] x.val = <<233, 47, 97>> -> <<195, 169, 47, 97>>
           [] x.val = <<103, 47, 97>> -> <<103, 47, 97>>

IsPrefixOf(a, b) == Len(a) <= Len(b) /\ SubSeq(b, 1, Len(a)) = a

\* text that str.encode() accepts
Encodable(x) == x.kind = "bytes" \/ \A k \in 1..Len(x.val) : ~IsSurrogate(x.val[k])

AllText(prefixes) == \A i \in 1..Len(prefixes) : prefixes[i].kind = "str"
AllBytes(prefixes) == \A i \in 1..Len(prefixes) : prefixes[i].kind = "bytes"

\* C9, as claimed: matches handles every combination of text or raw-byte prefixes
\* with a text or raw-byte path: it never raises and is true iff the path starts
\* with a prefix once both are in the same representation.
C9_MatchesAnyRepresentation ==
    ( /\ last.op = "matches"
      /\ \A i \in 1..Len(last.prefixes) : Encodable(last.prefixes[i]) )
    => /\ last.result.exc = "none"
       /\ last.result.val =
             (\E i \in 1..Len(last.prefixes) :
                  IsPrefixOf(ByteForm(last.prefixes[i]), ByteForm(last.path)))

\* C9, amended: with text prefixes that UTF-8 can encode, matches never raises and
\* is true iff the path, text or raw bytes, starts with a prefix in the path's own
\* representation; with raw-byte prefixes only, matches raises for every path:
\* AttributeError for a raw-byte path, TypeError for a text path.
C9_MatchesTextPrefixes ==
    last.op = "matches" =>
        /\ ( /\ AllText(last.prefixes)
             /\ \A i \in 1..Len(last.prefixes) : Encodable(last.prefixes[i]) )
           => /\ last.result.exc = "none"
              /\ last.result.val =
                    (\E i \in 1..Len(last.prefixes) :
                         IsPrefixOf(ByteForm(last.prefixes[i]), ByteForm(last.path)))
        /\ (AllBytes(last.prefixes) /\ last.prefixes # <<>>)
           => /\ last.result.exc =
                    (IF last.path.kind = "bytes" THEN "AttributeError" ELSE "TypeError")
              /\ ~last.result.val

\* a policy with the text prefix "é/" asked about the UTF-8 bytes of "é/a": it matches
C9_Witness ==
    /\ last.op = "matches"
    /\ last.prefixes = << Str(<<233, 47>>) >>
    /\ last.path = Bytes(<<195, 169, 47, 97>>)
    /\ last.result = Ok(TRUE)

(***************************************************************************)
(* Concurrent callers of one registry: a thread inside get_policy_for_path *)
(* or is_allowed while other threads register policies.  The for loop      *)
(* holds the list object and an index; each round of the loop compares the *)
(* index with the length the list has at that moment.                      *)
(***************************************************************************)
Readers == {"t1"}

Idle == [pc |-> "idle"]

InitConc ==
    /\ \E ps \in InitialPolicies, da \in BOOLEAN : heap = << new_registry(ps, da) >>
    /\ wrapped = 0
    /\ last = [op |-> "none"]
    /\ threads = [t \in Readers |-> Idle]

\* entry into registry.get_policy_for_path(path) or registry.is_allowed(request, path):
\* `for policy in self.policies` takes an iterator at index 0
BeginCall(t, op, request, path) ==
    /\ threads[t].pc \in {"idle", "done"}
    /\ threads' = [threads EXCEPT ![t] =
                      [pc |-> "scan", op |-> op, request |-> request, path |-> path,
                       i |-> 0, seen |-> { heap[1].policies }, mid |-> FALSE]]
    /\ UNCHANGED <<heap, wrapped, last>>

\* one round of the loop: the next policy, if the list has one, and its matches(path)
ScanStep(t) ==
    LET th == threads[t]
        ps == heap[1].policies
    IN  /\ th.pc = "scan"
        /\ IF th.i < Len(ps)
           THEN LET policy == ps[th.i + 1]
                    m == matches(restricted_prefixes(policy), th.path)
                IN  threads' = [threads EXCEPT ![t] =
                        IF m.exc # "none"
                        THEN [pc |-> "done", op |-> th.op, request |-> th.request,
                              path |-> th.path, seen |-> th.seen, mid |-> th.mid,
                              result |-> IF th.op = "is_allowed"
                                         THEN Raise(m.exc, FALSE) ELSE Raise(m.exc, "None")]
                        ELSE IF m.val /\ th.op = "is_allowed"
                        THEN [pc |-> "check", op |-> th.op, request |-> th.request,
                              path |-> th.path, seen |-> th.seen, mid |-> th.mid,
                              policy |-> policy]
                        ELSE IF m.val
                        THEN [pc |-> "done", op |-> th.op, request |-> th.request,
                              path |-> th.path, seen |-> th.seen, mid |-> th.mid,
                              result |-> Ok(policy)]
                        ELSE [th EXCEPT !.i = th.i + 1]]
           ELSE threads' = [threads EXCEPT ![t] =
                    [pc |-> "done", op |-> th.op, request |-> th.request,
                     path |-> th.path, seen |-> th.seen, mid |-> th.mid,
                     result |-> IF th.op = "is_allowed"
                                THEN Ok(heap[1].default_allow) ELSE Ok("None")]]
        /\ UNCHANGED <<heap, wrapped, last>>

\* is_allowed with a policy found: return policy.is_allowed(request, path)
CallPredicate(t) ==
    LET th == threads[t]
    IN  /\ th.pc = "check"
        /\ threads' = [threads EXCEPT ![t] =
                          [pc |-> "done", op |-> th.op, request |-> th.request,
                           path |-> th.path, seen |-> th.seen, mid |-> th.mid,
                           result |-> policy_is_allowed(th.policy, th.request, th.path)]]
        /\ UNCHANGED <<heap, wrapped, last>>

\* registry.register(policy) by another thread; every call in progress has now
\* also run against the new sequence (mid: the call had already looked at a policy)
ConcRegister(policy) ==
    /\ Len(heap[1].policies) < MaxConcPolicies
    /\ heap' = [heap EXCEPT ![1].policies = register(@, policy)]
    /\ threads' = [t \in Readers |->
                      IF threads[t].pc \in {"scan", "check"}
                      THEN [threads[t] EXCEPT
                               !.seen = @ \cup { heap'[1].policies },
                               !.mid = @ \/ threads[t].pc = "check" \/ threads[t].i > 0]
                      ELSE threads[t]]
    /\ last' = [op |-> "register", ref |-> 1, policy |-> policy,
                before |-> heap[1].policies]
    /\ UNCHANGED wrapped

NextConc ==
    \/ \E t \in Readers, path \in Paths :
           BeginCall(t, "get_policy_for_path", "anonymous", path)
    \/ \E t \in Readers, rq \in Requests, path \in Paths :
           BeginCall(t, "is_allowed", rq, path)
    \/ \E t \in Readers : ScanStep(t)
    \/ \E t \in Readers : CallPredicate(t)
    \/ \E p \in PolicyIds : ConcRegister(p)

SpecConc == InitConc /\ [][NextConc]_vars

\* what the call of thread record th returns when it runs alone on the sequence ps
ResultOn(th, ps) ==
    IF th.op = "is_allowed"
    THEN LET r == registry_is_allowed(new_registry(ps, heap[1].default_allow),
                                      th.request, th.path)
         IN  [exc |-> r.exc, val |-> r.val]
    ELSE get_policy_for_path(ps, th.path)

\* C6: a get_policy_for_path or is_allowed call that runs while policies are being
\* registered returns what it would return on the policy sequence as it was before
\* or as it is after one of those registrations: no interleaving of the scan with
\* an append yields another result.
C6_NoTornRead ==
    \A t \in Readers :
        threads[t].pc = "done" =>
            \E ps \in threads[t].seen : threads[t].result = ResultOn(threads[t], ps)

\* a call that had already looked at a policy when a registration changed what
\* the call would return
C6_Witness ==
    \E t \in Readers :
        /\ threads[t].pc = "done"
        /\ threads[t].mid
        /\ Cardinality(threads[t].seen) = 2
        /\ \E a, b \in threads[t].seen :
              /\ Len(a) < Len(b)
              /\ ResultOn(threads[t], a) # ResultOn(threads[t], b)
              /\ threads[t].result = ResultOn(threads[t], b)

(***************************************************************************)
(* Concurrent first accesses of the default registry.  The module-level    *)
(* `registry` is a LazyObject: every attribute access goes through its     *)
(* proxy, which tests `self._wrapped is empty`, calls _setup() if so, and  *)
(* then uses the wrapped instance.  Nothing in these steps takes a lock.   *)
(***************************************************************************)
Callers == {"t1", "t2"}

InitLazy ==
    /\ heap = << new_registry(<<>>, TRUE) >>
    /\ wrapped = 0
    /\ last = [op |-> "none", registered |-> {}]
    /\ threads = [t \in Callers |-> Idle]

\* a caller starts registry.register(policy) on the default registry
BeginAccess(t, policy) ==
    /\ threads[t].pc = "idle"
    /\ threads' = [threads EXCEPT ![t] = [pc |-> "test", policy |-> policy, w |-> 0]]
    /\ UNCHANGED <<heap, wrapped, last>>

\* the proxy reads self._wrapped and compares it with empty
TestEmpty(t) ==
    /\ threads[t].pc = "test"
    /\ threads' = [threads EXCEPT ![t] =
                      [@ EXCEPT !.pc = IF wrapped = 0 THEN "setup" ELSE "call",
                                !.w = wrapped]]
    /\ UNCHANGED <<heap, wrapped, last>>

\* _setup: self._wrapped = MediaAccessPolicyRegistryClass(), whatever _wrapped is now
Setup(t) ==
    /\ threads[t].pc = "setup"
    /\ heap' = setup_heap(heap, 0)
    /\ wrapped' = setup_wrapped(heap, 0)
    /\ threads' = [threads EXCEPT ![t] = [@ EXCEPT !.pc = "reread"]]
    /\ UNCHANGED last

\* after _setup the proxy reads self._wrapped again
Reread(t) ==
    /\ threads[t].pc = "reread"
    /\ threads' = [threads EXCEPT ![t] = [@ EXCEPT !.pc = "call", !.w = wrapped]]
    /\ UNCHANGED <<heap, wrapped, last>>

\* register(policy) runs on the instance the proxy read
CallWrapped(t) ==
    /\ threads[t].pc = "call"
    /\ total_policies(heap, 1) < MaxPolicies
    /\ heap' = [heap EXCEPT ![threads[t].w].policies = register(@, threads[t].policy)]
    /\ last' = [op |-> "register", registered |-> last.registered \cup {threads[t].policy}]
    /\ threads' = [threads EXCEPT ![t] = Idle]
    /\ UNCHANGED wrapped

NextLazy ==
    \/ \E t \in Callers, p \in PolicyIds : BeginAccess(t, p)
    \/ \E t \in Callers : TestEmpty(t)
    \/ \E t \in Callers : Setup(t)
    \/ \E t \in Callers : Reread(t)
    \/ \E t \in Callers : CallWrapped(t)

SpecLazy == InitLazy /\ [][NextLazy]_vars

\* C7: the default registry builds its concrete instance at most once, for every
\* interleaving of first accesses by concurrent callers, and every policy
\* registered through the default registry is in the instance that later lookups
\* through the default registry use.
C7_DefaultBuiltOnce ==
    /\ Len(heap) <= 2
    /\ \A p \in last.registered :
          /\ wrapped # 0
          /\ \E i \in 1..Len(heap[wrapped].policies) : heap[wrapped].policies[i] = p

(***************************************************************************)
(* Which registry a wrapped view consults, and when                        *)
(***************************************************************************)
\* what is_allowed has to answer on registry reg: the predicate result of the first
\* matching policy, default_allow when there is none
Expected(reg, request, path) ==
    LET first == FirstMatch(reg.policies, path)
    IN  IF first = "None" THEN Ok(reg.default_allow)
        ELSE access_check(first, request, path)

\* the call recorded in rec reached the view
Forwarded(rec) == ViewCalls(rec.result.calls) # <<>>

\* the call recorded in rec ended as registry reg decides
DecidedBy(rec, reg) ==
    LET e == Expected(reg, rec.request, rec.path)
    IN  IF e.exc # "none"
        THEN ~Forwarded(rec) /\ rec.result.outcome.exc = e.exc
        ELSE /\ Forwarded(rec) = e.val
             /\ ~e.val => rec.result.outcome.exc = "Http404"

\* C11: a view wrapped with an explicit registry is decided by that registry on
\* every call, whatever the default registry holds; a view wrapped without a
\* registry is decided by the default registry.
C11_ExplicitRegistryOnly ==
    last.op = "check_path" =>
        IF last.gate = "custom"
        THEN last.ref = 1 /\ DecidedBy(last, heap[1])
        ELSE wrapped # 0 /\ last.ref = wrapped /\ DecidedBy(last, heap[wrapped])

\* a call of the view wrapped with the custom registry while the default registry
\* holds a policy that would decide the other way
C11_Witness ==
    /\ last.op = "check_path"
    /\ last.gate = "custom"
    /\ wrapped # 0
    /\ heap[wrapped].policies # <<>>
    /\ Expected(heap[1], last.request, last.path).exc = "none"
    /\ Expected(heap[wrapped], last.request, last.path).exc = "none"
    /\ Expected(heap[1], last.request, last.path).val
          # Expected(heap[wrapped], last.request, last.path).val
    /\ Forwarded(last) = Expected(heap[1], last.request, last.path).val

(***************************************************************************)
(* Repeated calls of a wrapped view                                        *)
(***************************************************************************)
\* how the call before this one ended, if it went to the same registry for the
\* same path
Previous(ref, path) ==
    IF last.op = "check_path" /\ last.ref = ref /\ last.path = path
    THEN IF Forwarded(last) THEN "forwarded"
         ELSE IF last.result.outcome.exc = "Http404" THEN "denied"
         ELSE "failed"
    ELSE "other"

\* a wrapped view that answers a repeated call from the decision of the call before
CheckPathCached(target, request, path) ==
    LET h1 == IF target = "default" THEN setup_heap(heap, wrapped) ELSE heap
        w1 == IF target = "default" THEN setup_wrapped(heap, wrapped) ELSE wrapped
        ref == IF target = "default" THEN w1 ELSE 1
    IN  /\ heap' = h1
        /\ wrapped' = w1
        /\ last' = [op |-> "check_path", gate |-> target, ref |-> ref,
                    request |-> request, path |-> path,
                    extra |-> <<>>, present |-> TRUE,
                    result |-> IF Previous(ref, path) = "other"
                               THEN check_path(h1[ref], request, path, <<>>, TRUE)
                               ELSE last.result,
                    prev |-> Previous(ref, path)]
        /\ UNCHANGED threads

\* a call of a wrapped view for a file that is there, by a caller who remembers how
\* the call before ended
CheckPathAgain(target, request, path) ==
    LET h1 == IF target = "default" THEN setup_heap(heap, wrapped) ELSE heap
        w1 == IF target = "default" THEN setup_wrapped(heap, wrapped) ELSE wrapped
        ref == IF target = "default" THEN w1 ELSE 1
    IN  /\ heap' = h1
        /\ wrapped' = w1
        /\ last' = [op |-> "check_path", gate |-> target, ref |-> ref,
                    request |-> request, path |-> path,
                    extra |-> <<>>, present |-> TRUE,
                    result |-> check_path(h1[ref], request, path, <<>>, TRUE),
                    prev |-> Previous(ref, path)]
        /\ UNCHANGED threads

NextRepeat ==
    \/ \E t \in Targets, p \in PolicyIds : Register(t, p)
    \/ \E t \in Targets, rq \in Requests, path \in Paths : CheckPathAgain(t, rq, path)

SpecRepeat == Init /\ [][NextRepeat]_vars

\* C12: the wrapped view keeps no decision from one call to the next: every call
\* ends as the registry's policy sequence and the predicate decide at the time of
\* that call, so a path denied in the call before is forwarded once the predicate
\* is true, a path forwarded before is denied once it is false, and policies
\* registered since the view was wrapped govern the call.
C12_NoCachedDecision ==
    last.op = "check_path" =>
        LET e == Expected(heap[last.ref], last.request, last.path)
        IN  /\ DecidedBy(last, heap[last.ref])
            /\ (last.prev = "denied" /\ e.exc = "none" /\ e.val) => Forwarded(last)
            /\ (last.prev = "forwarded" /\ e.exc = "none" /\ ~e.val)
               => ~Forwarded(last) /\ last.result.outcome.exc = "Http404"

\* a path under a registered prefix that was denied in the call before and is
\* forwarded now, the request being a logged-in one
C12_Witness ==
    /\ last.op = "check_path"
    /\ last.prev = "denied"
    /\ FirstMatch(heap[last.ref].policies, last.path) # "None"
    /\ Forwarded(last)

(***************************************************************************)
(* Failures of the predicate                                               *)
(***************************************************************************)
\* C13: when the predicate of the governing policy raises, registry.is_allowed
\* raises that same failure and so does the call of the wrapped view: the failure
\* is neither a not-found denial nor an allow, and view_func is not called.
C13_PredicateFailurePropagates ==
    last.op = "check_path" =>
        LET first == FirstMatch(heap[last.ref].policies, last.path)
            p == access_check(first, last.request, last.path)
        IN  (first # "None" /\ p.exc # "none") =>
                /\ registry_is_allowed(heap[last.ref], last.request, last.path).exc = p.exc
                /\ last.result.outcome.kind = "raise"
                /\ last.result.outcome.exc = p.exc
                /\ last.result.outcome.exc # "Http404"
                /\ ViewCalls(last.result.calls) = <<>>

\* a request without a user reaches a predicate that reads request.user, for a
\* file that is there
C13_Witness ==
    /\ last.op = "check_path"
    /\ last.present
    /\ FirstMatch(heap[last.ref].policies, last.path) # "None"
    /\ access_check(FirstMatch(heap[last.ref].policies, last.path),
                    last.request, last.path).exc = "AttributeError"
    /\ last.result.outcome.exc = "AttributeError"

(***************************************************************************)
(* The free register with valid arguments                                  *)
(***************************************************************************)
\* C14: register(policy, registry) with an access policy and either a policy
\* registry or nothing appends the policy to exactly one registry: the supplied
\* one, the default registry staying as it was, or the default registry when none
\* is supplied, the supplied-elsewhere registry staying as it was.
C14_FreeRegisterOneRegistry ==
    ( /\ last.op = "free_register"
      /\ last.media_policy \in PolicyIds
      /\ last.policy_registry \in {"None", "custom"} )
    => LET before == AllPolicies(last.heap_before, last.wrapped_before)
           after == AllPolicies(heap, wrapped)
       IN  /\ last.exc = "none"
           /\ IF last.policy_registry = "custom"
              THEN /\ after.custom = Append(before.custom, last.media_policy)
                   /\ after.default = before.default
                   /\ wrapped = last.wrapped_before
              ELSE /\ wrapped # 0
                   /\ after.default = Append(before.default, last.media_policy)
                   /\ after.custom = before.custom

\* a policy registered into the supplied registry while the default registry holds
\* a policy of its own
C14_Witness ==
    /\ last.op = "free_register"
    /\ last.policy_registry = "custom"
    /\ last.media_policy \in PolicyIds
    /\ last.exc = "none"
    /\ wrapped # 0
    /\ heap[wrapped].policies # <<>>
    /\ heap[1].policies = Append(last.heap_before[1].policies, last.media_policy)

(***************************************************************************)
(* Literal prefixes                                                        *)
(***************************************************************************)
\* some configured prefix is, element by element, the beginning of the path
LiteralPrefix(prefixes, path) ==
    \E i \in 1..Len(prefixes) : IsPrefixOf(prefixes[i].val, path.val)

\* C15, as claimed: for a policy and a path in the same representation, text with
\* text or raw bytes with raw bytes, matches is true iff the path literally starts
\* with a configured prefix.
C15_LiteralPrefixSameRepresentation ==
    ( /\ last.op = "matches"
      /\ \/ AllText(last.prefixes) /\ last.path.kind = "str"
         \/ AllBytes(last.prefixes) /\ last.path.kind = "bytes" )
    => last.result = Ok(LiteralPrefix(last.prefixes, last.path))

\* C15, amended: for a policy with text prefixes and a text path, matches is true
\* iff the path literally starts with a configured prefix, character by character
\* and not per path segment, and a policy with no prefix matches no path, text or
\* raw bytes.
C15_LiteralTextPrefix ==
    last.op = "matches" =>
        /\ (AllText(last.prefixes) /\ last.path.kind = "str")
           => last.result = Ok(LiteralPrefix(last.prefixes, last.path))
        /\ last.prefixes = <<>> => last.result = Ok(FALSE)

\* the prefix "i" and the path "ix": the prefix ends inside the first segment of
\* the path and the policy matches
C15_Witness ==
    /\ last.op = "matches"
    /\ last.prefixes = << Str(<<105>>) >>
    /\ last.path = Str(<<105, 120>>)
    /\ last.result = Ok(TRUE)

(***************************************************************************)
(* Predicate invocations of one call                                       *)
(***************************************************************************)
\* C16: a call of the wrapped view invokes at most one predicate, once: the
\* predicate of the first-registered matching policy when a policy matches, none
\* otherwise; no other policy's predicate is invoked and the predicate invocation
\* comes before any invocation of view_func.
C16_OnePredicateBeforeView ==
    last.op = "check_path" =>
        LET calls == last.result.calls
            first == FirstMatch(heap[last.ref].policies, last.path)
            preds == SelectSeq(calls, LAMBDA c : c.fn = "access_check")
        IN  /\ preds = IF first = "None" THEN <<>>
                       ELSE << PredCall(first, last.request, last.path) >>
            /\ \A i, j \in 1..Len(calls) :
                  (calls[i].fn = "access_check" /\ calls[j].fn = "view_func") => i < j

\* two registered policies match the path; the first one's predicate is invoked,
\* then view_func
C16_Witness ==
    /\ last.op = "check_path"
    /\ Cardinality(MatchingIndices(heap[last.ref].policies, last.path)) = 2
    /\ heap[last.ref].policies[1] # heap[last.ref].policies[2]
    /\ Len(last.result.calls) = 2
    /\ last.result.calls[1] = PredCall(heap[last.ref].policies[1], last.request, last.path)
    /\ last.result.calls[2].fn = "view_func"

(***************************************************************************)
(* Registries and the sequences they are built from.  Here the heap holds  *)
(* list objects next to registry objects: heap[1] is a list the caller     *)
(* owns and passes as policies, heap[2] is the default argument ().        *)
(***************************************************************************)
MaxRegistries == 3
MaxOwnItems == 3

CallerList == 1
DefaultArg == 2

\* self.policies = policies, without the copy
list_alias(h, src) == [heap |-> h, ref |-> src]

\* list(policies): a new list object with the items policies has now
list_copy(h, src) ==
    [heap |-> Append(h, [type |-> "list", items |-> h[src].items]),
     ref |-> Len(h) + 1]

Registries(h) == { i \in 1..Len(h) : h[i].type = "registry" }

\* registry.policies, read through the reference the registry holds
PoliciesOf(h, r) == h[h[r].policies].items

RECURSIVE total_items(_, _)
total_items(h, i) ==
    IF i > Len(h) THEN 0
    ELSE (IF h[i].type = "list" THEN Len(h[i].items) ELSE 0) + total_items(h, i + 1)

InitOwn ==
    /\ \E initial \in InitialPolicies :
          heap = << [type |-> "list", items |-> initial],
                    [type |-> "tuple", items |-> <<>>] >>
    /\ wrapped = 0
    /\ threads = NoThreads
    /\ last = [op |-> "none"]

\* MediaAccessPolicyRegistry(policies) with the caller's list, or
\* MediaAccessPolicyRegistry() with the default argument
Construct(src) ==
    LET c == list_copy(heap, src)
    IN  /\ Cardinality(Registries(heap)) < MaxRegistries
        /\ heap' = Append(c.heap, [type |-> "registry", policies |-> c.ref,
                                   default_allow |-> TRUE, built_from |-> src])
        /\ last' = [op |-> "construct", ref |-> Len(c.heap) + 1, policy |-> "None"]
        /\ UNCHANGED <<wrapped, threads>>

\* r.register(policy) on one of the registries
OwnRegister(r, policy) ==
    /\ r \in Registries(heap)
    /\ total_items(heap, 1) < MaxOwnItems
    /\ heap' = [heap EXCEPT ![heap[r].policies].items = register(@, policy)]
    /\ last' = [op |-> "own_register", ref |-> r, policy |-> policy]
    /\ UNCHANGED <<wrapped, threads>>

\* the caller appends to the list they built registries from
CallerAppend(policy) ==
    /\ total_items(heap, 1) < MaxOwnItems
    /\ heap' = [heap EXCEPT ![CallerList].items = Append(@, policy)]
    /\ last' = [op |-> "caller_append", ref |-> CallerList, policy |-> policy]
    /\ UNCHANGED <<wrapped, threads>>

NextOwn ==
    \/ \E src \in {CallerList, DefaultArg} : Construct(src)
    \/ \E r \in 1..(2 + 2 * MaxRegistries), p \in PolicyIds : OwnRegister(r, p)
    \/ \E p \in PolicyIds : CallerAppend(p)

SpecOwn == InitOwn /\ [][NextOwn]_vars

\* C17: a registry owns its policy sequence.  A new registry starts with the items
\* its policies argument has at construction; afterwards the sequence of a registry
\* changes only by a register on that same registry, which appends, so a register
\* on another registry built from the same list or with no policies, and an append
\* to the caller's list, leave it as it is; the caller's list and the default
\* argument change by no register.
C17_RegistryOwnsPolicies ==
    [][ /\ \A r \in Registries(heap) :
              PoliciesOf(heap', r) # PoliciesOf(heap, r)
              => /\ last'.op = "own_register"
                 /\ last'.ref = r
                 /\ PoliciesOf(heap', r) = Append(PoliciesOf(heap, r), last'.policy)
        /\ \A r \in Registries(heap') \ Registries(heap) :
              PoliciesOf(heap', r) = heap[heap'[r].built_from].items
        /\ heap'[CallerList].items # heap[CallerList].items
           => last'.op = "caller_append"
        /\ heap'[DefaultArg].items = <<>>
      ]_vars

\* two registries built from the caller's list and one built with no policies; a
\* register on one of the first two has just made it differ from the other, the
\* third is still empty and the caller's list has changed on its own
C17_Witness ==
    /\ last.op = "own_register"
    /\ \E r1, r2, r3 \in Registries(heap) :
          /\ r1 = last.ref /\ r1 # r2
          /\ heap[r1].built_from = CallerList
          /\ heap[r2].built_from = CallerList
          /\ heap[r3].built_from = DefaultArg
          /\ PoliciesOf(heap, r1) # PoliciesOf(heap, r2)
          /\ PoliciesOf(heap, r3) = <<>>
          /\ heap[CallerList].items # PoliciesOf(heap, r1)
          /\ heap[CallerList].items # PoliciesOf(heap, r2)

====
